---- MODULE Spec2Model ----
(***************************************************************************)
(* Standings and playoff-probability engine of FantasyAnalyzer             *)
(* (src/src/services/standings.js, class StandingsAnalyzer).               *)
(*                                                                         *)
(* The specifications below share one list of variables:                   *)
(*   Spec         - one call of analyzeStandings, with the per-week        *)
(*                  provider requests settling in any order and with any   *)
(*                  outcome;                                               *)
(*   RecSpec      - one call of calculateRecords, stepped week by week;    *)
(*   RecCallSpec  - the same call as one step, argument to result;         *)
(*   RecOrderSpec - that step on weeks given in any order;                 *)
(*   HeurSpec     - the heuristic fallback of calculatePlayoffProbability, *)
(*                  applied to inputs drawn from bounded sets;             *)
(*   RankSpec     - the standings and power-ranking orderings, applied to  *)
(*                  records drawn from bounded sets;                       *)
(*   SimSpec      - one call of simulateRemainingSeason, stepped trial by  *)
(*                  trial, the outcomes of Math.random drawn from a small  *)
(*                  set;                                                   *)
(*   SimTwiceSpec - that call made twice with the same arguments;          *)
(*   FetchSpec    - one call of getSeasonMatchups or getRemainingSchedule, *)
(*                  with the order in which the requests settle kept;      *)
(*   SeasonSpec   - the behaviours of Spec and of SimSpec together.        *)
(*                                                                         *)
(* Numbers: points are integers (tenths of a point in the program);        *)
(* quotients such as points per game are exact rationals <<n, d>>, d > 0.  *)
(* The program computes them in IEEE doubles; the model ignores the        *)
(* rounding error of doubles.                                              *)
(***************************************************************************)
EXTENDS Integers, Sequences, FiniteSets, TLC

\* ------------------------------------------------------------------ bounds
\* Number of rosters in the league; roster ids are 1..NumTeams.
NumTeams == 3
\* Largest current week and largest playoff_week_start the model draws.
MaxWeek == 3
\* Largest playoff_teams setting the model draws (0 stands for "not set").
MaxPlayoffTeams == 2

\* Largest current rank and largest playoff slot count HeurSpec draws.
MaxRank == 10
MaxSlots == 6
\* Largest number of wins, and of losses, of a record HeurSpec draws.
MaxGames == 2

Teams == 1..NumTeams

\* Scores a team can have in one week.
PointVals == {0, 1}
\* The ids a provider gives to the pairings of one week.
MatchupIds == {1, 2}

\* ----------------------------------------------------------- week values
\* What one provider request leaves in the collected list: an array of
\* matchup entries, or no value at all (undefined / null).
Arr(list) == [isNull |-> FALSE, list |-> list]
Undef == [isNull |-> TRUE, list |-> <<>>]

\* A matchup entry; points is <<>> when the field is missing.
Entry(t, mid, pts) == [roster_id |-> t, matchup_id |-> mid, points |-> pts]

\* ------------------------------------------------------ calculateRecords
\* rosters.forEach(...): one zeroed record per roster.
InitRecordsCopiesId(rosterIds) ==
  [t \in rosterIds |->
     [rosterId |-> t, wins |-> 0, losses |-> 0, ties |-> 0,
      pointsFor |-> t, pointsAgainst |-> 0]]

InitRecords(rosterIds) ==
  [t \in rosterIds |->
     [rosterId |-> t, wins |-> 0, losses |-> 0, ties |-> 0,
      pointsFor |-> 0, pointsAgainst |-> 0]]

\* team.points || 0
PointsOrZero(m) == IF m.points = <<>> THEN 0 ELSE m.points[1]

\* Object.values(matchupGroups): the week's entries grouped by matchup_id;
\* integer keys enumerate in ascending order, entries keep list order.
RECURSIVE GroupsFrom(_, _)
GroupsFrom(list, ids) ==
  IF ids = {} THEN <<>>
  ELSE LET mid == CHOOSE i \in ids : \A j \in ids : i <= j
           grp == SelectSeq(list, LAMBDA e : e.matchup_id = mid)
       IN <<grp>> \o GroupsFrom(list, ids \ {mid})

MatchupGroups(list) ==
  GroupsFrom(list, {list[i].matchup_id : i \in DOMAIN list})

\* Lines 62-80: fold one two-entry group into the records.
ProcessPairBadAgainst(records, team1, team2) ==
  LET points1 == PointsOrZero(team1)
      points2 == PointsOrZero(team2)
      a == team1.roster_id
      b == team2.roster_id
      r1 == [records EXCEPT ![a].pointsFor = @ + points1,
                            ![a].pointsAgainst = @ + points1]
      r2 == [r1 EXCEPT ![b].pointsFor = @ + points2,
                       ![b].pointsAgainst = @ + points2]
  IN IF points1 > points2
       THEN [r2 EXCEPT ![a].wins = @ + 1, ![b].losses = @ + 1]
     ELSE IF points2 > points1
       THEN [r2 EXCEPT ![b].wins = @ + 1, ![a].losses = @ + 1]
     ELSE [[r2 EXCEPT ![a].ties = @ + 1] EXCEPT ![b].ties = @ + 1]

ProcessPairTieAsLoss(records, team1, team2) ==
  LET points1 == PointsOrZero(team1)
      points2 == PointsOrZero(team2)
      a == team1.roster_id
      b == team2.roster_id
      r1 == [records EXCEPT ![a].pointsFor = @ + points1,
                            ![a].pointsAgainst = @ + points2]
      r2 == [r1 EXCEPT ![b].pointsFor = @ + points2,
                       ![b].pointsAgainst = @ + points1]
  IN IF points1 >= points2
       THEN [r2 EXCEPT ![a].wins = @ + 1, ![b].losses = @ + 1]
     ELSE [r2 EXCEPT ![b].wins = @ + 1, ![a].losses = @ + 1]

ProcessPairTieOneSided(records, team1, team2) ==
  LET points1 == PointsOrZero(team1)
      points2 == PointsOrZero(team2)
      a == team1.roster_id
      b == team2.roster_id
      r1 == [records EXCEPT ![a].pointsFor = @ + points1,
                            ![a].pointsAgainst = @ + points2]
      r2 == [r1 EXCEPT ![b].pointsFor = @ + points2,
                       ![b].pointsAgainst = @ + points1]
  IN IF points1 > points2
       THEN [r2 EXCEPT ![a].wins = @ + 1, ![b].losses = @ + 1]
     ELSE IF points2 > points1
       THEN [r2 EXCEPT ![b].wins = @ + 1, ![a].losses = @ + 1]
     ELSE [r2 EXCEPT ![a].ties = @ + 1]

ProcessPairSetsWin(records, team1, team2) ==
  LET points1 == PointsOrZero(team1)
      points2 == PointsOrZero(team2)
      a == team1.roster_id
      b == team2.roster_id
      r1 == [records EXCEPT ![a].pointsFor = @ + points1,
                            ![a].pointsAgainst = @ + points2]
      r2 == [r1 EXCEPT ![b].pointsFor = @ + points2,
                       ![b].pointsAgainst = @ + points1]
  IN IF points1 > points2
       THEN [r2 EXCEPT ![a].wins = 1, ![b].losses = @ + 1]
     ELSE IF points2 > points1
       THEN [r2 EXCEPT ![b].wins = 1, ![a].losses = @ + 1]
     ELSE [[r2 EXCEPT ![a].ties = @ + 1] EXCEPT ![b].ties = @ + 1]

ProcessPairByTotals(records, team1, team2) ==
  LET points1 == PointsOrZero(team1)
      points2 == PointsOrZero(team2)
      a == team1.roster_id
      b == team2.roster_id
      r1 == [records EXCEPT ![a].pointsFor = @ + points1,
                            ![a].pointsAgainst = @ + points2]
      r2 == [r1 EXCEPT ![b].pointsFor = @ + points2,
                       ![b].pointsAgainst = @ + points1]
  IN IF r2[a].pointsFor > r2[b].pointsFor
       THEN [r2 EXCEPT ![a].wins = @ + 1, ![b].losses = @ + 1]
     ELSE IF r2[b].pointsFor > r2[a].pointsFor
       THEN [r2 EXCEPT ![b].wins = @ + 1, ![a].losses = @ + 1]
     ELSE [[r2 EXCEPT ![a].ties = @ + 1] EXCEPT ![b].ties = @ + 1]

ProcessPair(records, team1, team2) ==
  LET points1 == PointsOrZero(team1)
      points2 == PointsOrZero(team2)
      a == team1.roster_id
      b == team2.roster_id
      r1 == [records EXCEPT ![a].pointsFor = @ + points1,
                            ![a].pointsAgainst = @ + points2]
      r2 == [r1 EXCEPT ![b].pointsFor = @ + points2,
                       ![b].pointsAgainst = @ + points1]
  IN IF points1 > points2
       THEN [r2 EXCEPT ![a].wins = @ + 1, ![b].losses = @ + 1]
     ELSE IF points2 > points1
       THEN [r2 EXCEPT ![b].wins = @ + 1, ![a].losses = @ + 1]
     ELSE [[r2 EXCEPT ![a].ties = @ + 1] EXCEPT ![b].ties = @ + 1]

\* Lines 60-82: a group is folded in only if it has exactly two entries.
ProcessGroupAtLeastTwo(records, matchup) ==
  IF Len(matchup) >= 2
    THEN ProcessPair(records, matchup[1], matchup[2])
    ELSE records

ProcessGroup(records, matchup) ==
  IF Len(matchup) = 2
    THEN ProcessPair(records, matchup[1], matchup[2])
    ELSE records

RECURSIVE ProcessGroups(_, _)
ProcessGroups(records, groups) ==
  IF groups = <<>> THEN records
  ELSE ProcessGroups(ProcessGroup(records, Head(groups)), Tail(groups))

\* Lines 47-83: one iteration of allMatchups.forEach.
ProcessWeek(records, weekMatchups) ==
  IF weekMatchups.isNull \/ Len(weekMatchups.list) = 0
    THEN records
    ELSE ProcessGroups(records, MatchupGroups(weekMatchups.list))

\* Lines 66-69: records[team.roster_id].pointsFor += ... reads a property
\* of undefined, a TypeError, when a two-entry group names a roster id
\* that has no record.
GroupThrows(records, matchup) ==
  /\ Len(matchup) = 2
  /\ \/ matchup[1].roster_id \notin DOMAIN records
     \/ matchup[2].roster_id \notin DOMAIN records

WeekThrows(records, weekMatchups) ==
  /\ ~weekMatchups.isNull
  /\ LET groups == MatchupGroups(weekMatchups.list)
     IN \E g \in DOMAIN groups : GroupThrows(records, groups[g])

RECURSIVE ProcessWeeks(_, _)
ProcessWeeks(records, allMatchups) ==
  IF allMatchups = <<>> THEN records
  ELSE ProcessWeeks(ProcessWeek(records, Head(allMatchups)), Tail(allMatchups))

CalculateRecords(rosterIds, allMatchups) ==
  ProcessWeeks(InitRecords(rosterIds), allMatchups)


\* ------------------------------------------------------------- rationals
\* <<n, d>> stands for n / d, with d > 0.
RInt(n) == <<n, 1>>
RAdd(x, y) == <<x[1] * y[2] + y[1] * x[2], x[2] * y[2]>>
RSub(x, y) == <<x[1] * y[2] - y[1] * x[2], x[2] * y[2]>>
RScale(k, x) == <<k * x[1], x[2]>>
RDivInt(x, k) == <<x[1], x[2] * k>>
RLeq(x, y) == x[1] * y[2] <= y[1] * x[2]
RLess(x, y) == x[1] * y[2] < y[1] * x[2]
REq(x, y) == x[1] * y[2] = y[1] * x[2]
RMax(x, y) == IF RLeq(x, y) THEN y ELSE x
RMin(x, y) == IF RLeq(x, y) THEN x ELSE y
RMul(x, y) == <<x[1] * y[1], x[2] * y[2]>>
RSign(x) == IF x[1] > 0 THEN 1 ELSE IF x[1] < 0 THEN -1 ELSE 0
RECURSIVE Gcd(_, _)
Gcd(a, b) == IF b = 0 THEN a ELSE Gcd(b, a % b)
\* The same number in lowest terms.
RNorm(x) ==
  LET g == Gcd(IF x[1] < 0 THEN -x[1] ELSE x[1], x[2])
  IN <<x[1] \div g, x[2] \div g>>
\* Math.round: the nearest integer, halves rounded up.
MathRound(x) == (2 * x[1] + x[2]) \div (2 * x[2])
Min(a, b) == IF a <= b THEN a ELSE b
Max(a, b) == IF a >= b THEN a ELSE b

\* --------------------------------------------------------------- ranking
\* Lines 259-262: wins, then pointsFor.
CompareWinsPoints(a, b) ==
  IF b.wins # a.wins THEN b.wins - a.wins ELSE b.pointsFor - a.pointsFor

\* Lines 379-383: wins, then ties, then pointsFor.
CompareStandingsNoTies(a, b) ==
  IF b.wins # a.wins THEN b.wins - a.wins ELSE b.pointsFor - a.pointsFor

CompareStandings(a, b) ==
  IF b.wins # a.wins THEN b.wins - a.wins
  ELSE IF b.ties # a.ties THEN b.ties - a.ties
  ELSE b.pointsFor - a.pointsFor

\* Line 93: pointsFor only.
ComparePowerAscending(a, b) == a.pointsFor - b.pointsFor

ComparePower(a, b) == b.pointsFor - a.pointsFor

\* Lines 225-228: wins, then pointsFor, on the records of a trial, whose
\* pointsFor is a quotient.
CompareTrial(a, b) ==
  IF b.wins # a.wins THEN b.wins - a.wins
  ELSE RSign(RSub(b.pointsFor, a.pointsFor))

\* The comparator a call of Array.prototype.sort is given.
Compare(by, a, b) ==
  CASE by = "winsPoints" -> CompareWinsPoints(a, b)
    [] by = "trial" -> CompareTrial(a, b)
    [] by = "standings" -> CompareStandings(a, b)
    [] OTHER -> ComparePower(a, b)

\* Array.prototype.sort with a comparator: a stable sort; a negative
\* Compare(by, a, b) places a before b.
RECURSIVE InsertSorted(_, _, _)
InsertSorted(by, x, s) ==
  IF s = <<>> THEN <<x>>
  ELSE IF Compare(by, x, Head(s)) < 0 THEN <<x>> \o s
  ELSE <<Head(s)>> \o InsertSorted(by, x, Tail(s))

RECURSIVE SortFrom(_, _, _)
SortFrom(by, done, rest) ==
  IF rest = <<>> THEN done
  ELSE SortFrom(by, InsertSorted(by, Head(rest), done), Tail(rest))

StableSort(by, s) == SortFrom(by, <<>>, s)

\* findIndex(r => r.rosterId === id) + 1; 0 when no element matches.
RankOfIndex(sorted, id) ==
  IF \E i \in DOMAIN sorted : sorted[i].rosterId = id
    THEN (CHOOSE i \in DOMAIN sorted :
            /\ sorted[i].rosterId = id
            /\ \A j \in 1..(i - 1) : sorted[j].rosterId # id) - 1
    ELSE 0 - 1

RankOf(sorted, id) ==
  IF \E i \in DOMAIN sorted : sorted[i].rosterId = id
    THEN CHOOSE i \in DOMAIN sorted :
           /\ sorted[i].rosterId = id
           /\ \A j \in 1..(i - 1) : sorted[j].rosterId # id
    ELSE 0

\* Object.values(records): integer keys enumerate in ascending order.
RECURSIVE ValuesFrom(_, _)
ValuesFrom(records, ids) ==
  IF ids = {} THEN <<>>
  ELSE LET t == CHOOSE i \in ids : \A j \in ids : i <= j
       IN <<records[t]>> \o ValuesFrom(records, ids \ {t})

ObjectValues(records) == ValuesFrom(records, DOMAIN records)

\* Lines 379-383: [...recordsWithUsers].sort(...), a sorted copy.
Standings(allRecords) == StableSort("standings", allRecords)

\* Lines 94-98: { ...record, powerRank: idx + 1 }, a copy of the record
\* with one more field.
WithPowerRank(record, rank) ==
  [f \in DOMAIN record \cup {"powerRank"} |->
     IF f = "powerRank" THEN rank ELSE record[f]]

\* Lines 91-100: Object.values(records) sorted by pointsFor, each record
\* copied with its 1-based position.
CalculatePowerRankings(allRecords) ==
  LET sorted == StableSort("power", allRecords)
  IN [idx \in DOMAIN sorted |-> WithPowerRank(sorted[idx], idx)]

\* Lines 92-93: Object.values returns a new array, and sort orders that
\* array in place; the argument is left as it was passed.
ArgumentAfterRanking(allRecords) == allRecords

\* ------------------------------------------------------- league settings
\* Line 254: league.settings?.playoff_teams || Math.floor(totalTeams / 2);
\* a setting of 0 stands for a missing one.
PlayoffTeams(league, totalTeams) ==
  IF league.playoff_teams # 0 THEN league.playoff_teams ELSE totalTeams \div 2

\* Line 255: (league.settings?.playoff_week_start || 15) - 1.
RegularSeasonWeeks(league) ==
  (IF league.playoff_week_start # 0 THEN league.playoff_week_start ELSE 15) - 1

\* Line 256.
WeeksRemaining(league, week) == RegularSeasonWeeks(league) - week + 1

\* Lines 259-264: the target's 1-based position by wins, then pointsFor.
CurrentRank(record, allRecords) ==
  RankOf(StableSort("winsPoints", allRecords), record.rosterId)

\* Line 393: standings.findIndex(r => r.rosterId === id) + 1.
UserStanding(rosterId, allRecords) == RankOf(Standings(allRecords), rosterId)

\* Line 394: powerRankings.find(r => r.rosterId === id)?.powerRank || 0.
UserPowerRank(rosterId, allRecords) ==
  LET p == CalculatePowerRankings(allRecords)
      i == RankOf(p, rosterId)
  IN IF i = 0 THEN 0 ELSE p[i].powerRank

\* Lines 277 and 346.
StatusOfStrict(currentRank, playoffTeams) ==
  IF currentRank < playoffTeams THEN "IN" ELSE "OUT"

StatusOf(currentRank, playoffTeams) ==
  IF currentRank <= playoffTeams THEN "IN" ELSE "OUT"

\* Line 271: the edge case that returns before any schedule is fetched.
NoWeeksRemainingOrFewer(weeksRemaining) == weeksRemaining < 0

NoWeeksRemaining(weeksRemaining) == weeksRemaining = 0

\* ------------------------------------------------------------- heuristic
\* Lines 122-128.
CalculateAdjustedPPG(record) ==
  LET gamesPlayed == record.wins + record.losses + record.ties
  IN IF gamesPlayed = 0 THEN RInt(0) ELSE <<record.pointsFor, gamesPlayed>>

\* Lines 267-268: (wins + ties * 0.5) / gamesPlayed, 0 with no game played.
WinPct(record) ==
  LET gamesPlayed == record.wins + record.losses + record.ties
  IN IF gamesPlayed > 0
       THEN <<2 * record.wins + record.ties, 2 * gamesPlayed>>
       ELSE RInt(0)

\* Lines 305-308: the mean over the league of each team's points per game.
RECURSIVE SumPPG(_)
SumPPG(recs) ==
  IF recs = <<>> THEN RInt(0)
  ELSE RAdd(CalculateAdjustedPPG(Head(recs)), SumPPG(Tail(recs)))

LeagueAvgPPG(allRecords) == RDivInt(SumPPG(allRecords), Len(allRecords))

\* Lines 311-317.
HeuristicBaseHalfPenalty(currentRank, playoffTeams) ==
  IF currentRank <= playoffTeams
    THEN 70 + Min((playoffTeams - currentRank) * 5, 20)
    ELSE Max(5, 45 - (currentRank - playoffTeams) * 4)

HeuristicBase(currentRank, playoffTeams) ==
  IF currentRank <= playoffTeams
    THEN 70 + Min((playoffTeams - currentRank) * 5, 20)
    ELSE Max(5, 45 - (currentRank - playoffTeams) * 8)

\* Lines 324-328.
TimeAdjustmentStrict(weeksRemaining) ==
  IF weeksRemaining > 8 THEN 10
  ELSE IF weeksRemaining < 3 THEN -15
  ELSE 0

TimeAdjustment(weeksRemaining) ==
  IF weeksRemaining >= 8 THEN 10
  ELSE IF weeksRemaining <= 3 THEN -15
  ELSE 0

\* Lines 331-335: thresholds 0.6 and 0.3.
TrendAdjustment(winPct) ==
  IF RLeq(<<6, 10>>, winPct) THEN 15
  ELSE IF RLeq(winPct, <<3, 10>>) THEN -20
  ELSE 0

\* Lines 304-335: the value before clamping.
HeuristicRaw(record, allRecords, currentRank, playoffTeams, weeksRemaining) ==
  LET avgPPG == CalculateAdjustedPPG(record)
      strengthDiff == RSub(avgPPG, LeagueAvgPPG(allRecords))
      adjust == HeuristicBase(currentRank, playoffTeams)
                  + TimeAdjustment(weeksRemaining)
                  + TrendAdjustment(WinPct(record))
  IN RAdd(RInt(adjust), RScale(2, strengthDiff))

\* Line 338: Math.max(1, Math.min(99, probability)).
ClampUpperOnly(probability) == RMin(RInt(99), probability)

Clamp(probability) == RMax(RInt(1), RMin(RInt(99), probability))

HeuristicProbability(record, allRecords, currentRank, playoffTeams, weeksRemaining) ==
  Clamp(HeuristicRaw(record, allRecords, currentRank, playoffTeams, weeksRemaining))

\* Lines 341-347.
ProbabilityResult(probability, currentRank, playoffTeams, weeksRemaining) ==
  [probability |-> MathRound(probability),
   currentRank |-> currentRank,
   playoffTeams |-> playoffTeams,
   weeksRemaining |-> weeksRemaining,
   status |-> StatusOf(currentRank, playoffTeams)]

\* Lines 272-278.
ZeroWeeksResult(currentRank, playoffTeams, weeksRemaining) ==
  [probability |-> IF currentRank <= playoffTeams THEN 100 ELSE 0,
   currentRank |-> currentRank,
   playoffTeams |-> playoffTeams,
   weeksRemaining |-> weeksRemaining,
   status |-> StatusOf(currentRank, playoffTeams)]

\* Line 292: futureMatchups.length > 0 && futureMatchups.some(m => m.length > 0).
\* some() visits the weeks in order and stops at the first hit; reading
\* .length of a week that holds no value throws a TypeError.
RECURSIVE SomeHasEntries(_)
SomeHasEntries(weeks) ==
  IF weeks = <<>> THEN "false"
  ELSE IF Head(weeks).isNull THEN "throws"
  ELSE IF Len(Head(weeks).list) > 0 THEN "true"
  ELSE SomeHasEntries(Tail(weeks))

HaveMatchups(weeks) == IF Len(weeks) > 0 THEN SomeHasEntries(weeks) ELSE "false"

\* ------------------------------------------------------------ simulation
\* Line 300: the iteration count calculatePlayoffProbability passes.
SimIterations == 500

\* Line 239: (playoffAppearances / iterations) * 100.
SimulationValueUndivided(playoffAppearances, iterations) ==
  <<100 * playoffAppearances, 1>>

SimulationValue(playoffAppearances, iterations) ==
  <<100 * playoffAppearances, iterations>>

\* The trials draw from Math.random, so the number of qualifying trials of
\* one call is a nondeterministic value in 0..iterations; the call of
\* analyzeStandings is explored for these counts.
SimAppearances == {0, 3, SimIterations \div 2, SimIterations}

\* Line 239 for any iteration count: 0 / 0 is NaN.
NaN == [nan |-> TRUE, value |-> RInt(0)]
Number(x) == [nan |-> FALSE, value |-> x]
SimulationReturn(playoffAppearances, iterations) ==
  IF iterations = 0 THEN NaN
  ELSE Number(SimulationValue(playoffAppearances, iterations))

\* Line 234: the position up to which a trial counts as a playoff
\* appearance.
SimPlayoffSlots == 6

\* Math.random(): a value in [0, 1); the model draws the lowest value and
\* a high one.
RandomDraws == {<<0, 1>>, <<9, 10>>}
\* Lines 203-204: 0.8 + Math.random() * 0.4.
VarianceFactor(u) == RAdd(<<4, 5>>, RMul(u, <<2, 5>>))

\* Line 169: allRecords.map(r => ({ ...r })), a fresh copy of each record;
\* the copy's pointsFor is kept as a quotient.
SimCopy(r) == [r EXCEPT !.pointsFor = RInt(r.pointsFor)]
SimRecords(allRecords) == [i \in DOMAIN allRecords |-> SimCopy(allRecords[i])]

\* Lines 122-128 on a record of the trial.
SimAdjustedPPGDefault(record) ==
  LET gamesPlayed == record.wins + record.losses + record.ties
  IN IF gamesPlayed = 0 THEN RInt(1) ELSE RDivInt(record.pointsFor, gamesPlayed)

SimAdjustedPPG(record) ==
  LET gamesPlayed == record.wins + record.losses + record.ties
  IN IF gamesPlayed = 0 THEN RInt(0) ELSE RDivInt(record.pointsFor, gamesPlayed)

\* simRecords.find(r => r.rosterId === id): the index of the first match,
\* 0 for undefined.
FindRecord(simRecords, id) ==
  IF \E i \in DOMAIN simRecords : simRecords[i].rosterId = id
    THEN CHOOSE i \in DOMAIN simRecords :
           /\ simRecords[i].rosterId = id
           /\ \A j \in 1..(i - 1) : simRecords[j].rosterId # id
    ELSE 0

\* Lines 190-219: one two-entry group of a future week. st.recs are the
\* trial's records, st.next the index of the next draw of Math.random.
SimPair(st, team1, team2, draws) ==
  LET i1 == FindRecord(st.recs, team1.roster_id)
      i2 == FindRecord(st.recs, team2.roster_id)
  IN IF i1 = 0 \/ i2 = 0 THEN st
     ELSE
       LET ppg1 == SimAdjustedPPG(st.recs[i1])
           ppg2 == SimAdjustedPPG(st.recs[i2])
           points1 == RMul(ppg1, VarianceFactor(draws[st.next]))
           points2 == RMul(ppg2, VarianceFactor(draws[st.next + 1]))
           outcome == IF RLess(points2, points1) THEN <<"wins", "losses">>
                      ELSE IF RLess(points1, points2) THEN <<"losses", "wins">>
                      ELSE <<"ties", "ties">>
           r1 == [st.recs EXCEPT ![i1][outcome[1]] = @ + 1]
           r2 == [r1 EXCEPT ![i2][outcome[2]] = @ + 1]
           r3 == [r2 EXCEPT ![i1].pointsFor = RNorm(RAdd(@, points1))]
           r4 == [r3 EXCEPT ![i2].pointsFor = RNorm(RAdd(@, points2))]
       IN [recs |-> r4, next |-> st.next + 2]

\* Lines 187-221: the groups of one week, two-entry groups only.
RECURSIVE SimGroups(_, _, _)
SimGroups(st, groups, draws) ==
  IF groups = <<>> THEN st
  ELSE SimGroups(
         IF Len(Head(groups)) = 2
           THEN SimPair(st, Head(groups)[1], Head(groups)[2], draws)
           ELSE st,
         Tail(groups), draws)

\* Lines 172-222: the remaining weeks in order; a week without a value or
\* without entries is skipped.
RECURSIVE SimWeeks(_, _, _)
SimWeeks(st, futureMatchups, draws) ==
  IF futureMatchups = <<>> THEN st
  ELSE LET weekMatchups == Head(futureMatchups)
       IN SimWeeks(
            IF weekMatchups.isNull \/ Len(weekMatchups.list) = 0 THEN st
            ELSE SimGroups(st, MatchupGroups(weekMatchups.list), draws),
            Tail(futureMatchups), draws)

\* The calls of Math.random one trial makes: two for each two-entry group
\* whose two records are found.
RECURSIVE DrawsNeeded(_, _)
DrawsNeeded(allRecords, futureMatchups) ==
  IF futureMatchups = <<>> THEN 0
  ELSE LET groups == MatchupGroups(Head(futureMatchups).list)
           played == {g \in DOMAIN groups :
                        /\ Len(groups[g]) = 2
                        /\ FindRecord(allRecords, groups[g][1].roster_id) # 0
                        /\ FindRecord(allRecords, groups[g][2].roster_id) # 0}
       IN 2 * Cardinality(played)
            + DrawsNeeded(allRecords, Tail(futureMatchups))

\* Lines 168-236: one iteration of the simulation loop with the given
\* outcomes of Math.random.
Trial(args, draws) ==
  LET start == SimRecords(args.allRecords)
      simRecords ==
        SimWeeks([recs |-> start, next |-> 1], args.futureMatchups, draws).recs
      finalStandings == StableSort("trial", simRecords)
      userFinalRank == RankOf(finalStandings, args.rosterId)
  IN [start |-> start,
      finalStandings |-> finalStandings,
      userFinalRank |-> userFinalRank,
      qualified |-> userFinalRank <= SimPlayoffSlots]

\* Lines 169 and 192-219: the trial writes wins, losses, ties and
\* pointsFor to the copies made by allRecords.map(r => ({ ...r })); the
\* records of the argument are flat, so the argument is left as passed.
ArgumentAfterTrialShared(allRecords, trial) ==
  LET shared(r) ==
        LET simRecord ==
              trial.finalStandings[FindRecord(trial.finalStandings,
                                              r.rosterId)]
        IN [rosterId |-> r.rosterId,
            wins |-> simRecord.wins,
            losses |-> simRecord.losses,
            ties |-> simRecord.ties,
            pointsFor |-> r.pointsFor,
            pointsAgainst |-> r.pointsAgainst]
      written[n \in 0..Len(allRecords)] ==
        IF n = 0 THEN <<>> ELSE Append(written[n - 1], shared(allRecords[n]))
  IN written[Len(allRecords)]

ArgumentAfterTrial(allRecords, trial) == allRecords

\* -------------------------------------------------------------- provider
\* The league's schedule: in week w the teams, rotated by w - 1, are paired
\* two by two; with an odd number of teams the last one has a bye and is
\* reported alone under its own matchup id. A team scores its strength.
TeamAt(w, i) == ((i + w - 2) % NumTeams) + 1

SeasonWeek(strength, w) ==
  [i \in 1..NumTeams |->
     Entry(TeamAt(w, i), (i + 1) \div 2, <<strength[TeamAt(w, i)]>>)]

\* What api.getMatchups(leagueId, w) can settle to: a rejection, no value
\* at all, an empty list, or the week's entries.
Pending == [kind |-> "pending", value |-> Undef]
Rejected == [kind |-> "rejected", value |-> Undef]
Resolved(value) == [kind |-> "resolved", value |-> value]

Outcomes(strength, w) ==
  {Rejected, Resolved(Undef), Resolved(Arr(<<>>)),
   Resolved(Arr(SeasonWeek(strength, w)))}

\* Lines 19 and 111: .catch(() => []).
CatchMissing(outcome) == outcome

CatchToEmpty(outcome) ==
  IF outcome.kind = "rejected" THEN Resolved(Arr(<<>>)) ELSE outcome

\* Line 109: the week of the i-th request of getRemainingSchedule; the loop
\* starts at currentWeek.
RemainingWeekFromPrevious(currentWeek, i) == currentWeek + i - 2

RemainingWeek(currentWeek, i) == currentWeek + i - 1

AllSettled(slots) == \A i \in DOMAIN slots : slots[i].kind # "pending"

\* Roster t is owned by user 100 + t; user 100 owns no roster.
OwnerOf(t) == 100 + t
UserIds == {100} \cup {OwnerOf(t) : t \in Teams}

\* Line 386: rosters.find(r => r.owner_id === userId); <<>> when none.
FindUserRosterOrFirst(userId) ==
  IF \E t \in Teams : OwnerOf(t) = userId
    THEN <<CHOOSE t \in Teams : OwnerOf(t) = userId>>
    ELSE <<1>>

FindUserRoster(userId) ==
  IF \E t \in Teams : OwnerOf(t) = userId
    THEN <<CHOOSE t \in Teams : OwnerOf(t) = userId>>
    ELSE <<>>

\* ----------------------------------------------------------------- state
VARIABLES
  pc,              \* where the call of analyzeStandings stands
  currentWeek,     \* rosterService.getCurrentWeek()
  league,          \* api.getLeague(leagueId).settings
  userId,          \* the requested user
  strength,        \* the season the provider reports
  histSlots,       \* matchupPromises of getSeasonMatchups
  futureSlots,     \* schedulePromises of getRemainingSchedule
  settled,         \* FetchSpec: the requests settled so far, in that order
  allMatchups,     \* the collected past weeks
  futureMatchups,  \* the collected remaining weeks
  records,         \* the result of calculateRecords
  path,            \* the branch calculatePlayoffProbability took
  called,          \* the methods invoked so far, in order
  simResult,       \* <<value>> once simulateRemainingSeason has returned
  result,          \* <<playoffProb>> once returned
  error,           \* the error the call failed with
  weekIdx,         \* RecSpec: weeks of allMatchups folded in so far
  prevRecords,     \* RecSpec: the records before the last folded week
  heurIn,          \* HeurSpec: the inputs of the heuristic
  heurOut,         \* HeurSpec: <<probability>> once computed
  rankIn,          \* RankSpec: the records handed to the two orderings
  rankOut,         \* RankSpec: <<the orderings>> once computed
  simArgs,         \* SimSpec: the arguments of simulateRemainingSeason
  simRun,          \* SimSpec: the loop state of the running call
  simValue,        \* SimSpec: <<the returned value>> once returned
  simFirst         \* SimSpec: <<the value an earlier, equal call returned>>

vars == <<pc, currentWeek, league, userId, strength, histSlots, futureSlots,
          settled,
          allMatchups, futureMatchups, records, path, called, simResult,
          result, error, weekIdx, prevRecords, heurIn, heurOut, rankIn,
          rankOut, simArgs, simRun, simValue, simFirst>>

callVars == <<currentWeek, league, userId, strength>>
recVars == <<weekIdx, prevRecords>>
heurVars == <<heurIn, heurOut>>
rankVars == <<rankIn, rankOut>>
simVars == <<simArgs, simRun, simValue, simFirst>>

NoHeurIn ==
  [record |-> InitRecords({1})[1], rival |-> InitRecords({2})[2],
   currentRank |-> 1, playoffTeams |-> 1, weeksRemaining |-> 1]

\* The values the variables of RankSpec and SimSpec hold elsewhere.
NoSimArgs ==
  [rosterId |-> 1, allRecords |-> <<>>, futureMatchups |-> <<>>,
   currentWeek |-> 1, iterations |-> 0]
NoSimRun == [sim |-> 0, playoffAppearances |-> 0, trial |-> <<>>]
RankIdle == rankIn = <<>> /\ rankOut = <<>>
SimIdle ==
  /\ simArgs = NoSimArgs
  /\ simRun = NoSimRun
  /\ simValue = <<>>
  /\ simFirst = <<>>

\* Promise.all had it given the values in the order the requests settled.
PromiseAllAsSettled(slots) ==
  IF \E i \in DOMAIN slots : CatchToEmpty(slots[i]).kind = "rejected"
    THEN [kind |-> "rejected", values |-> <<>>]
    ELSE [kind |-> "resolved",
          values |-> [k \in DOMAIN slots |->
                        CatchToEmpty(slots[settled[k]]).value]]

\* Lines 23 and 115: Promise.all over the caught promises, in request order.
PromiseAll(slots) ==
  IF \E i \in DOMAIN slots : CatchToEmpty(slots[i]).kind = "rejected"
    THEN [kind |-> "rejected", values |-> <<>>]
    ELSE [kind |-> "resolved",
          values |-> [i \in DOMAIN slots |-> CatchToEmpty(slots[i]).value]]

\* ------------------------------------------------ analyzeStandings (Spec)
Init ==
  /\ pc = "start"
  /\ currentWeek \in 1..MaxWeek
  /\ league \in [playoff_teams : 0..MaxPlayoffTeams,
                 playoff_week_start : 1..MaxWeek]
  /\ userId \in UserIds
  /\ strength \in [Teams -> PointVals]
  /\ histSlots = <<>>
  /\ futureSlots = <<>>
  /\ settled = <<>>
  /\ allMatchups = <<>>
  /\ futureMatchups = <<>>
  /\ records = InitRecords(Teams)
  /\ path = "none"
  /\ called = <<>>
  /\ simResult = <<>>
  /\ result = <<>>
  /\ error = "none"
  /\ weekIdx = 0
  /\ prevRecords = InitRecords(Teams)
  /\ heurIn = NoHeurIn
  /\ heurOut = <<>>
  /\ RankIdle
  /\ SimIdle

\* Lines 354-360 and 17-23: the league data is in; getSeasonMatchups issues
\* one request per week 1..currentWeek-1 and awaits them all.
Start ==
  /\ pc = "start"
  /\ pc' = "histFetch"
  /\ histSlots' = [w \in 1..(currentWeek - 1) |-> Pending]
  /\ called' = Append(called, "getSeasonMatchups")
  /\ UNCHANGED <<callVars, futureSlots, settled, allMatchups, futureMatchups,
                 records, path, simResult, result, error, recVars, heurVars,
                 rankVars, simVars>>

\* The request for past week w settles.
HistSettle(w) ==
  /\ pc = "histFetch"
  /\ w \in DOMAIN histSlots
  /\ histSlots[w].kind = "pending"
  /\ \E o \in Outcomes(strength, w) :
       histSlots' = [histSlots EXCEPT ![w] = o]
  /\ UNCHANGED <<pc, callVars, futureSlots, settled, allMatchups,
                 futureMatchups,
                 records, path, called, simResult, result, error, recVars,
                 heurVars,
                 rankVars, simVars>>

\* The arguments analyzeStandings passes to calculatePlayoffProbability
\* (lines 397-404), read from the state.
UserRecord == records[FindUserRoster(userId)[1]]
AllRecords == ObjectValues(records)
TotalTeams == Len(AllRecords)
FutureWeeks == Max(0, RegularSeasonWeeks(league) - currentWeek + 1)

\* Lines 23-24 and 363-404, up to the first await of
\* calculatePlayoffProbability: the past weeks are collected, the records
\* aggregated and ranked, the user's record looked up (lines 386-391), and
\* either the zero-weeks result returned (lines 271-279) or the remaining
\* schedule requested (lines 284, 109-115).
HistDone ==
  /\ pc = "histFetch"
  /\ AllSettled(histSlots)
  /\ LET all == PromiseAll(histSlots)
         recs == CalculateRecords(Teams, all.values)
         userRoster == FindUserRoster(userId)
         allRecs == ObjectValues(recs)
         playoffTeams == PlayoffTeams(league, Len(allRecs))
         weeksRemaining == WeeksRemaining(league, currentWeek)
     IN IF all.kind = "rejected"
          THEN /\ pc' = "failed"
               /\ error' = "fetch rejected"
               /\ UNCHANGED <<allMatchups, records, called, path, result,
                              futureSlots>>
        ELSE
          /\ allMatchups' = all.values
          /\ records' = recs
          /\ IF userRoster = <<>>
               THEN /\ pc' = "failed"
                    /\ error' = "Could not find user record"
                    /\ called' = called \o <<"calculateRecords",
                                             "calculatePowerRankings">>
                    /\ UNCHANGED <<path, result, futureSlots>>
             ELSE IF NoWeeksRemaining(weeksRemaining)
               THEN /\ pc' = "done"
                    /\ path' = "zeroWeeks"
                    /\ result' = <<ZeroWeeksResult(
                                     CurrentRank(recs[userRoster[1]], allRecs),
                                     playoffTeams, weeksRemaining)>>
                    /\ called' = called \o <<"calculateRecords",
                                             "calculatePowerRankings",
                                             "calculatePlayoffProbability">>
                    /\ UNCHANGED <<error, futureSlots>>
             ELSE /\ pc' = "futureFetch"
                  /\ futureSlots' = [i \in 1..FutureWeeks |-> Pending]
                  /\ called' = called \o <<"calculateRecords",
                                           "calculatePowerRankings",
                                           "calculatePlayoffProbability",
                                           "getRemainingSchedule">>
                  /\ UNCHANGED <<path, result, error>>
  /\ UNCHANGED <<callVars, histSlots, settled, futureMatchups, simResult,
                 recVars,
                 heurVars,
                 rankVars, simVars>>

\* The request for remaining week currentWeek + i - 1 settles.
FutureSettle(i) ==
  /\ pc = "futureFetch"
  /\ i \in DOMAIN futureSlots
  /\ futureSlots[i].kind = "pending"
  /\ \E o \in Outcomes(strength, RemainingWeek(currentWeek, i)) :
       futureSlots' = [futureSlots EXCEPT ![i] = o]
  /\ UNCHANGED <<pc, callVars, histSlots, settled, allMatchups,
                 futureMatchups,
                 records, path, called, simResult, result, error, recVars,
                 heurVars,
                 rankVars, simVars>>

\* Lines 115-116 and 282-347: the remaining weeks are collected (a rejected
\* getRemainingSchedule leaves futureMatchups empty, lines 283-287), then
\* the simulation or the heuristic gives the probability.
FutureDone ==
  /\ pc = "futureFetch"
  /\ AllSettled(futureSlots)
  /\ LET all == PromiseAll(futureSlots)
         weeks == IF all.kind = "rejected" THEN <<>> ELSE all.values
         have == HaveMatchups(weeks)
         playoffTeams == PlayoffTeams(league, TotalTeams)
         weeksRemaining == WeeksRemaining(league, currentWeek)
         currentRank == CurrentRank(UserRecord, AllRecords)
     IN /\ futureMatchups' = weeks
        /\ IF have = "throws"
             THEN /\ pc' = "failed"
                  /\ error' = "TypeError"
                  /\ UNCHANGED <<path, called, simResult, result>>
           ELSE IF have = "true"
             THEN \E playoffAppearances \in SimAppearances :
                    LET value == SimulationValue(playoffAppearances,
                                                 SimIterations)
                    IN /\ pc' = "done"
                       /\ path' = "simulation"
                       /\ called' = Append(called, "simulateRemainingSeason")
                       /\ simResult' = <<value>>
                       /\ result' = <<ProbabilityResult(value, currentRank,
                                        playoffTeams, weeksRemaining)>>
                       /\ error' = error
           ELSE /\ pc' = "done"
                /\ path' = "heuristic"
                /\ result' = <<ProbabilityResult(
                                 HeuristicProbability(UserRecord, AllRecords,
                                   currentRank, playoffTeams, weeksRemaining),
                                 currentRank, playoffTeams, weeksRemaining)>>
                /\ UNCHANGED <<called, simResult, error>>
  /\ UNCHANGED <<callVars, histSlots, futureSlots, settled, allMatchups, records,
                 recVars, heurVars,
                 rankVars, simVars>>

Next ==
  \/ Start
  \/ \E w \in 1..MaxWeek : HistSettle(w)
  \/ HistDone
  \/ \E i \in 1..MaxWeek : FutureSettle(i)
  \/ FutureDone

Spec == Init /\ [][Next]_vars

\* ======================================================= properties, Spec
Was(name) == \E i \in DOMAIN called : called[i] = name
Ended == pc \in {"done", "failed"}
Aggregated == pc \in {"futureFetch", "done", "failed"}
OwnsRoster == userId \in {OwnerOf(t) : t \in Teams}
WeeksLeft == RegularSeasonWeeks(league) - currentWeek + 1
ExactProbability(r) == IF r.currentRank <= r.playoffTeams THEN 100 ELSE 0
ExactStatus(r) == IF r.currentRank <= r.playoffTeams THEN "IN" ELSE "OUT"

\* C1: with weeksRemaining = 0 the call returns probability 100 when
\* currentRank <= playoffTeams and 0 otherwise, status IN resp. OUT, and
\* neither requests the remaining schedule nor runs the simulation.
C1_ZeroWeeksExact ==
  (WeeksLeft = 0) =>
    /\ ~Was("getRemainingSchedule")
    /\ ~Was("simulateRemainingSeason")
    /\ futureSlots = <<>>
    /\ (Aggregated /\ OwnsRoster) =>
         /\ pc = "done"
         /\ result # <<>>
         /\ result[1].weeksRemaining = 0
         /\ result[1].probability = ExactProbability(result[1])
         /\ result[1].status = ExactStatus(result[1])

C1_Witness ==
  /\ pc = "done"
  /\ WeeksLeft = 0
  /\ Len(allMatchups) = 2
  /\ result[1].probability = 0
  /\ result[1].status = "OUT"

\* C2: with weeksRemaining < 0 the call returns probability 100 when
\* currentRank <= playoffTeams and 0 otherwise, with the matching status,
\* and runs no simulation.
C2_PastSeasonExact ==
  (WeeksLeft < 0 /\ Ended /\ OwnsRoster) =>
    /\ pc = "done"
    /\ result[1].probability = ExactProbability(result[1])
    /\ result[1].status = ExactStatus(result[1])
    /\ ~Was("simulateRemainingSeason")

\* C3: whatever each remaining week's request settles to (rejected, empty
\* list, no value, data), calculatePlayoffProbability returns a result and
\* raises no error; with every remaining week rejected it returns the
\* heuristic value.
C3_ScheduleFailureNeverPropagates ==
  (Ended /\ Was("calculatePlayoffProbability")) =>
    /\ pc = "done"
    /\ result # <<>>
    /\ (\A i \in DOMAIN futureSlots : futureSlots[i].kind = "rejected")
         => path \in {"heuristic", "zeroWeeks"}

\* The season's week w as the schedule defines it, for the teams' own view.
PosOf(w, t) == CHOOSE i \in 1..NumTeams : TeamAt(w, i) = t
OppPos(i) == IF i % 2 = 1 THEN i + 1 ELSE i - 1
HasOpp(w, t) == OppPos(PosOf(w, t)) <= NumTeams
Opp(w, t) == TeamAt(w, OppPos(PosOf(w, t)))
\* Past week w was delivered with its entries.
Delivered(w) ==
  /\ histSlots[w].kind = "resolved"
  /\ ~histSlots[w].value.isNull
  /\ Len(histSlots[w].value.list) > 0
Played(t) == {w \in DOMAIN histSlots : Delivered(w) /\ HasOpp(w, t)}
RECURSIVE OppPoints(_, _)
OppPoints(t, weeks) ==
  IF weeks = {} THEN 0
  ELSE LET w == CHOOSE x \in weeks : TRUE
       IN strength[Opp(w, t)] + OppPoints(t, weeks \ {w})

\* C4: a past week whose request is rejected contributes nothing: the
\* records equal those computed with that week resolved to an empty list,
\* and every delivered week still contributes its full result.
C4_FailedWeekIsEmptyWeek ==
  Aggregated =>
    /\ error # "fetch rejected"
    /\ records = CalculateRecords(Teams,
         [w \in DOMAIN histSlots |->
            IF histSlots[w].kind = "rejected" THEN Arr(<<>>)
            ELSE histSlots[w].value])
    /\ \A t \in Teams :
         /\ records[t].wins = Cardinality(
              {w \in Played(t) : strength[t] > strength[Opp(w, t)]})
         /\ records[t].losses = Cardinality(
              {w \in Played(t) : strength[t] < strength[Opp(w, t)]})
         /\ records[t].ties = Cardinality(
              {w \in Played(t) : strength[t] = strength[Opp(w, t)]})
         /\ records[t].pointsFor = strength[t] * Cardinality(Played(t))
         /\ records[t].pointsAgainst = OppPoints(t, Played(t))

C4_Witness ==
  /\ Aggregated
  /\ Len(histSlots) = 2
  /\ histSlots[1].kind = "rejected"
  /\ Delivered(2)
  /\ \E t \in Teams : records[t].wins = 1 /\ records[t].pointsFor = 1

\* C5: analyzeStandings fails with 'Could not find user record' whenever
\* the requested user owns no roster, returning nothing, and never raises
\* that error for a user who owns one.
C5_UnknownUserFails ==
  /\ (Aggregated /\ ~OwnsRoster) =>
       /\ pc = "failed"
       /\ error = "Could not find user record"
       /\ result = <<>>
       /\ ~Was("calculatePlayoffProbability")
  /\ OwnsRoster => error # "Could not find user record"

C5_Witness ==
  /\ pc = "failed"
  /\ ~OwnsRoster
  /\ error = "Could not find user record"
  /\ \E t \in Teams : records[t].wins = 2

\* C7: with weeksRemaining # 0 exactly one path is taken: the simulation,
\* whose rounded value is returned, iff some collected remaining week has
\* an entry; the heuristic iff none has; the simulation never runs on a
\* schedule without entries.
SomeWeekHasEntries ==
  \E i \in DOMAIN futureSlots :
    /\ futureSlots[i].kind = "resolved"
    /\ ~futureSlots[i].value.isNull
    /\ Len(futureSlots[i].value.list) > 0

C7_ExactlyOnePath ==
  (WeeksLeft # 0 /\ Ended /\ Was("calculatePlayoffProbability")) =>
    /\ SomeWeekHasEntries =>
         /\ path = "simulation"
         /\ Was("simulateRemainingSeason")
         /\ result # <<>>
         /\ simResult # <<>>
         /\ result[1].probability = MathRound(simResult[1])
    /\ ~SomeWeekHasEntries =>
         /\ path = "heuristic"
         /\ ~Was("simulateRemainingSeason")
         /\ result # <<>>

\* ============================================= calculateRecords (RecSpec)
\* The lists one week can hold: each team at most once, under any matchup
\* id, with its points present or missing, in ascending roster order.
EntryChoices ==
  {<<>>} \cup {<<mid, pts>> : mid \in MatchupIds,
                              pts \in {<<>>} \cup {<<p>> : p \in PointVals}}

RECURSIVE ListOf(_, _)
ListOf(choice, t) ==
  IF t > NumTeams THEN <<>>
  ELSE (IF choice[t] = <<>> THEN <<>>
        ELSE <<Entry(t, choice[t][1], choice[t][2])>>)
       \o ListOf(choice, t + 1)

MatchupLists == {ListOf(choice, 1) : choice \in [Teams -> EntryChoices]}

\* Lists with an entry whose roster id is not among the rosters: next to
\* one team's entry, and as the third entry behind two teams' entries.
UnknownRoster == NumTeams + 1
UnknownLists ==
  {<<Entry(t, m1, <<p>>), Entry(UnknownRoster, m2, <<q>>)>> :
     t \in Teams, m1 \in MatchupIds, m2 \in MatchupIds,
     p \in PointVals, q \in PointVals}
  \cup {<<Entry(1, m1, <<1>>), Entry(2, m2, <<0>>),
          Entry(UnknownRoster, m1, <<0>>)>> :
          m1 \in MatchupIds, m2 \in MatchupIds}

WeekValues ==
  {Undef} \cup {Arr(list) : list \in MatchupLists \cup UnknownLists}

\* The argument of one call: some weeks of the season as the provider
\* reports them, then one week holding any list (or no value).
RecInputs ==
  {[w \in 1..(k + 1) |->
      IF w <= k THEN Arr(SeasonWeek(st, w)) ELSE last] :
     k \in 0..(MaxWeek - 1), st \in [Teams -> PointVals], last \in WeekValues}

RecInit ==
  /\ pc = "calculateRecords"
  /\ allMatchups \in RecInputs
  /\ records = InitRecords(Teams)
  /\ prevRecords = InitRecords(Teams)
  /\ weekIdx = 0
  /\ currentWeek = 1
  /\ league = [playoff_teams |-> 0, playoff_week_start |-> 1]
  /\ userId = 100
  /\ strength = [t \in Teams |-> 0]
  /\ histSlots = <<>>
  /\ futureSlots = <<>>
  /\ settled = <<>>
  /\ futureMatchups = <<>>
  /\ path = "none"
  /\ called = <<>>
  /\ simResult = <<>>
  /\ result = <<>>
  /\ error = "none"
  /\ heurIn = NoHeurIn
  /\ heurOut = <<>>
  /\ RankIdle
  /\ SimIdle

\* Lines 47-83: allMatchups.forEach folds the next week into the records,
\* or the call ends with the TypeError of lines 66-69 and returns nothing.
RecWeek ==
  /\ pc = "calculateRecords"
  /\ weekIdx < Len(allMatchups)
  /\ IF WeekThrows(records, allMatchups[weekIdx + 1])
       THEN /\ pc' = "threw"
            /\ error' = "TypeError"
            /\ UNCHANGED <<records, recVars>>
       ELSE /\ prevRecords' = records
            /\ records' = ProcessWeek(records, allMatchups[weekIdx + 1])
            /\ weekIdx' = weekIdx + 1
            /\ UNCHANGED <<pc, error>>
  /\ UNCHANGED <<callVars, histSlots, futureSlots, settled, allMatchups,
                 futureMatchups, path, called, simResult, result,
                 heurVars, rankVars, simVars>>

\* Line 85: return records.
RecReturn ==
  /\ pc = "calculateRecords"
  /\ weekIdx = Len(allMatchups)
  /\ pc' = "returned"
  /\ UNCHANGED <<callVars, histSlots, futureSlots, settled, allMatchups,
                 futureMatchups, records, path, called, simResult, result,
                 error, recVars, heurVars,
                 rankVars, simVars>>

RecNext == RecWeek \/ RecReturn

RecSpec == RecInit /\ [][RecNext]_vars

\* The same call taken as one step (RecCallSpec): it returns the records
\* of lines 30-86, or ends with the TypeError of lines 66-69.
CallThrows(rosterIds, weeks) ==
  \E w \in DOMAIN weeks : WeekThrows(InitRecords(rosterIds), weeks[w])

RecCall ==
  /\ pc = "calculateRecords"
  /\ IF CallThrows(Teams, allMatchups)
       THEN /\ pc' = "threw"
            /\ error' = "TypeError"
            /\ UNCHANGED <<records, weekIdx>>
       ELSE /\ pc' = "returned"
            /\ records' = CalculateRecords(Teams, allMatchups)
            /\ weekIdx' = Len(allMatchups)
            /\ UNCHANGED error
  /\ UNCHANGED <<callVars, histSlots, futureSlots, settled, allMatchups,
                 futureMatchups, path, called, simResult, result,
                 prevRecords, heurVars, rankVars, simVars>>

RecCallNext == RecCall

RecCallSpec == RecInit /\ [][RecCallNext]_vars

\* The call on weeks in any order (RecOrderSpec): the argument is any
\* sequence of weeks of one season as the provider reports them, a week
\* possibly more than once, or of weeks without a value.
OrderWeeks(st) == {Undef} \cup {Arr(SeasonWeek(st, w)) : w \in 1..MaxWeek}

OrderInputs ==
  UNION {[1..k -> OrderWeeks(st)] :
           k \in 0..MaxWeek, st \in [Teams -> PointVals]}

RecOrderInit ==
  /\ pc = "calculateRecords"
  /\ allMatchups \in OrderInputs
  /\ records = InitRecords(Teams)
  /\ prevRecords = InitRecords(Teams)
  /\ weekIdx = 0
  /\ currentWeek = 1
  /\ league = [playoff_teams |-> 0, playoff_week_start |-> 1]
  /\ userId = 100
  /\ strength = [t \in Teams |-> 0]
  /\ histSlots = <<>>
  /\ futureSlots = <<>>
  /\ settled = <<>>
  /\ futureMatchups = <<>>
  /\ path = "none"
  /\ called = <<>>
  /\ simResult = <<>>
  /\ result = <<>>
  /\ error = "none"
  /\ heurIn = NoHeurIn
  /\ heurOut = <<>>
  /\ RankIdle
  /\ SimIdle

RecOrderSpec == RecOrderInit /\ [][RecCallNext]_vars

\* ================================== the heuristic fallback (HeurSpec)
HeurPoints == {0, 30, 200}
RivalPoints == {0, 60, 300}
HeurWeeks == {-1, 1, 3, 4, 8}

HeurRecords ==
  {r \in [rosterId : {1}, wins : 0..MaxGames, losses : 0..MaxGames,
          ties : {0, 1}, pointsFor : HeurPoints, pointsAgainst : {0}] :
     (r.wins + r.losses + r.ties = 0) => r.pointsFor = 0}

RivalRecords ==
  [rosterId : {2}, wins : {1}, losses : {0}, ties : {0},
   pointsFor : RivalPoints, pointsAgainst : {0}]

HeurInit ==
  /\ pc = "heuristic"
  /\ heurIn \in [record : HeurRecords, rival : RivalRecords,
                 currentRank : 1..MaxRank, playoffTeams : 1..MaxSlots,
                 weeksRemaining : HeurWeeks]
  /\ heurOut = <<>>
  /\ allMatchups = <<>>
  /\ records = InitRecords(Teams)
  /\ prevRecords = InitRecords(Teams)
  /\ weekIdx = 0
  /\ currentWeek = 1
  /\ league = [playoff_teams |-> 0, playoff_week_start |-> 1]
  /\ userId = 100
  /\ strength = [t \in Teams |-> 0]
  /\ histSlots = <<>>
  /\ futureSlots = <<>>
  /\ settled = <<>>
  /\ futureMatchups = <<>>
  /\ path = "none"
  /\ called = <<>>
  /\ simResult = <<>>
  /\ result = <<>>
  /\ error = "none"
  /\ RankIdle
  /\ SimIdle

HeurAllRecords == <<heurIn.record, heurIn.rival>>
HeurRawValue ==
  HeuristicRaw(heurIn.record, HeurAllRecords, heurIn.currentRank,
               heurIn.playoffTeams, heurIn.weeksRemaining)

\* Lines 303-347: the else branch and the returned object.
ApplyHeuristic ==
  /\ pc = "heuristic"
  /\ heurOut = <<>>
  /\ heurOut' = <<ProbabilityResult(
                    HeuristicProbability(heurIn.record, HeurAllRecords,
                      heurIn.currentRank, heurIn.playoffTeams,
                      heurIn.weeksRemaining),
                    heurIn.currentRank, heurIn.playoffTeams,
                    heurIn.weeksRemaining)>>
  /\ UNCHANGED <<pc, callVars, histSlots, futureSlots, settled, allMatchups,
                 futureMatchups, records, path, called, simResult, result,
                 error, recVars, heurIn,
                 rankVars, simVars>>

HeurNext == ApplyHeuristic

HeurSpec == HeurInit /\ [][HeurNext]_vars

\* ================================= the two orderings (RankSpec)
\* Records as calculateRecords can leave them, one per roster in ascending
\* roster order (the order of Object.values, line 366).
RankPoints == {0, 1, 2}
RankRecords(t) ==
  [rosterId : {t}, wins : {0, 1}, losses : {0}, ties : {0, 1},
   pointsFor : RankPoints, pointsAgainst : {0}]

RankInit ==
  /\ pc = "rank"
  /\ rankIn \in {s \in [Teams -> UNION {RankRecords(t) : t \in Teams}] :
                   \A t \in Teams : s[t].rosterId = t}
  /\ rankOut = <<>>
  /\ allMatchups = <<>>
  /\ records = InitRecords(Teams)
  /\ prevRecords = InitRecords(Teams)
  /\ weekIdx = 0
  /\ currentWeek = 1
  /\ league = [playoff_teams |-> 0, playoff_week_start |-> 1]
  /\ userId = 100
  /\ strength = [t \in Teams |-> 0]
  /\ histSlots = <<>>
  /\ futureSlots = <<>>
  /\ settled = <<>>
  /\ futureMatchups = <<>>
  /\ path = "none"
  /\ called = <<>>
  /\ simResult = <<>>
  /\ result = <<>>
  /\ error = "none"
  /\ heurIn = NoHeurIn
  /\ heurOut = <<>>
  /\ SimIdle

\* Lines 375-383: analyzeStandings derives the power rankings and the
\* standings from the same records.
RankApply ==
  /\ pc = "rank"
  /\ rankOut = <<>>
  /\ rankOut' = <<[given |-> rankIn,
                   powerRankings |-> CalculatePowerRankings(rankIn),
                   standings |-> Standings(rankIn)]>>
  /\ rankIn' = ArgumentAfterRanking(rankIn)
  /\ UNCHANGED <<pc, callVars, histSlots, futureSlots, settled, allMatchups,
                 futureMatchups, records, path, called, simResult, result,
                 error, recVars, heurVars, simVars>>

RankNext == RankApply

RankSpec == RankInit /\ [][RankNext]_vars

\* ========================== simulateRemainingSeason (SimSpec)
\* Largest iteration count the model passes.
MaxIterations == 2

\* The records of teams 1..NumTeams after weeksPlayed weeks of a season.
LeagueAfter(st, weeksPlayed) ==
  ObjectValues(CalculateRecords(Teams,
                 [w \in 1..weeksPlayed |-> Arr(SeasonWeek(st, w))]))

\* The rest of the league: teams with no remaining matchup, so many that
\* the league has one team more than the SimPlayoffSlots of line 234, each
\* with MaxWeek wins.
RestOfLeague ==
  [i \in 1..(SimPlayoffSlots - NumTeams + 1) |->
     [rosterId |-> UnknownRoster + i, wins |-> MaxWeek, losses |-> 0,
      ties |-> 0, pointsFor |-> 2 * MaxWeek, pointsAgainst |-> 0]]

\* Week w as the provider lists it ahead of time: the first pairing and
\* one more team, whose opponent is not listed.
ListedWeek(st, w) == SubSeq(SeasonWeek(st, w), 1, 3)

\* What the list of remaining weeks can hold for week w: no value, no
\* entries, the listed week, or a pairing with a roster that has no
\* record.
FutureWeekValues(st, w) ==
  {Undef, Arr(<<>>), Arr(ListedWeek(st, w)),
   Arr(<<Entry(1, 1, <<>>), Entry(UnknownRoster, 1, <<>>)>>)}

\* Schedules of no, one and two remaining weeks.
SimSchedules(st, week) ==
  {<<>>}
  \cup {<<a>> : a \in FutureWeekValues(st, week)}
  \cup {<<a, b>> : a \in FutureWeekValues(st, week),
                   b \in FutureWeekValues(st, week + 1)}

SimInputs ==
  UNION {{[rosterId |-> u,
           allRecords |-> LeagueAfter(st, week - 1) \o RestOfLeague,
           futureMatchups |-> f, currentWeek |-> week, iterations |-> n] :
            u \in Teams, f \in SimSchedules(st, week),
            n \in 0..MaxIterations} :
         st \in [Teams -> PointVals], week \in 1..MaxWeek}

SimInit ==
  /\ pc = "simulate"
  /\ simArgs \in SimInputs
  /\ simRun = NoSimRun
  /\ simValue = <<>>
  /\ simFirst = <<>>
  /\ allMatchups = <<>>
  /\ records = InitRecords(Teams)
  /\ prevRecords = InitRecords(Teams)
  /\ weekIdx = 0
  /\ currentWeek = 1
  /\ league = [playoff_teams |-> 0, playoff_week_start |-> 1]
  /\ userId = 100
  /\ strength = [t \in Teams |-> 0]
  /\ histSlots = <<>>
  /\ futureSlots = <<>>
  /\ settled = <<>>
  /\ futureMatchups = <<>>
  /\ path = "none"
  /\ called = <<>>
  /\ simResult = <<>>
  /\ result = <<>>
  /\ error = "none"
  /\ heurIn = NoHeurIn
  /\ heurOut = <<>>
  /\ RankIdle

\* Lines 168-236: one pass of the for loop, a whole trial; the outcomes of
\* its calls of Math.random are whatever the global generator gives.
SimTrial ==
  /\ pc = "simulate"
  /\ simRun.sim < simArgs.iterations
  /\ \E draws \in [1..DrawsNeeded(simArgs.allRecords,
                                   simArgs.futureMatchups) -> RandomDraws] :
       LET trial == Trial(simArgs, draws)
       IN simRun' = [sim |-> simRun.sim + 1,
                     playoffAppearances |->
                       simRun.playoffAppearances
                         + (IF trial.qualified THEN 1 ELSE 0),
                     trial |-> <<trial>>]
  /\ simArgs' = [simArgs EXCEPT
                   !.allRecords =
                     ArgumentAfterTrial(simArgs.allRecords, simRun'.trial[1])]
  /\ UNCHANGED <<pc, callVars, histSlots, futureSlots, settled, allMatchups,
                 futureMatchups, records, path, called, simResult, result,
                 error, recVars, heurVars, rankVars, simValue, simFirst>>

\* Line 239: the loop is over, the share of qualifying trials is returned.
SimReturn ==
  /\ pc = "simulate"
  /\ simRun.sim >= simArgs.iterations
  /\ pc' = "simReturned"
  /\ simValue' = <<SimulationReturn(simRun.playoffAppearances,
                                    simArgs.iterations)>>
  /\ UNCHANGED <<callVars, histSlots, futureSlots, settled, allMatchups,
                 futureMatchups, records, path, called, simResult, result,
                 error, recVars, heurVars, rankVars, simArgs, simRun,
                 simFirst>>

SimNext == SimTrial \/ SimReturn

SimSpec == SimInit /\ [][SimNext]_vars

\* The caller repeats the call with the same arguments (the signature of
\* lines 159-166 has no parameter for a random source).
SimAgain ==
  /\ pc = "simReturned"
  /\ simFirst = <<>>
  /\ pc' = "simulate"
  /\ simFirst' = simValue
  /\ simValue' = <<>>
  /\ simRun' = NoSimRun
  /\ UNCHANGED <<callVars, histSlots, futureSlots, settled, allMatchups,
                 futureMatchups, records, path, called, simResult, result,
                 error, recVars, heurVars, rankVars, simArgs>>

SimTwiceNext == SimTrial \/ SimReturn \/ SimAgain

SimTwiceSpec == SimInit /\ [][SimTwiceNext]_vars

\* ------------------- getSeasonMatchups, getRemainingSchedule (FetchSpec)
\* One call of getSeasonMatchups followed by calculateRecords, or one call
\* of getRemainingSchedule; the requests settle in any order, and settled
\* keeps that order by the requests' places in the array of promises.
FetchInit ==
  /\ pc \in {"getSeasonMatchups", "getRemainingSchedule"}
  /\ currentWeek \in 1..MaxWeek
  /\ league \in [playoff_teams : {0}, playoff_week_start : 1..MaxWeek]
  /\ userId = 100
  /\ strength \in [Teams -> PointVals]
  /\ histSlots = IF pc = "getSeasonMatchups"
                   THEN [w \in 1..(currentWeek - 1) |-> Pending]
                   ELSE <<>>
  /\ futureSlots = IF pc = "getRemainingSchedule"
                     THEN [i \in 1..FutureWeeks |-> Pending]
                     ELSE <<>>
  /\ settled = <<>>
  /\ allMatchups = <<>>
  /\ futureMatchups = <<>>
  /\ records = InitRecords(Teams)
  /\ prevRecords = InitRecords(Teams)
  /\ weekIdx = 0
  /\ path = "none"
  /\ called = <<>>
  /\ simResult = <<>>
  /\ result = <<>>
  /\ error = "none"
  /\ heurIn = NoHeurIn
  /\ heurOut = <<>>
  /\ RankIdle
  /\ SimIdle

\* Lines 17-20: the request for past week w settles.
PastSettle(w) ==
  /\ pc = "getSeasonMatchups"
  /\ w \in DOMAIN histSlots
  /\ histSlots[w].kind = "pending"
  /\ \E o \in Outcomes(strength, w) :
       histSlots' = [histSlots EXCEPT ![w] = o]
  /\ settled' = Append(settled, w)
  /\ UNCHANGED <<pc, callVars, futureSlots, allMatchups, futureMatchups,
                 records, path, called, simResult, result, error, recVars,
                 heurVars, rankVars, simVars>>

\* Lines 109-112: the request for remaining week currentWeek + i - 1
\* settles.
RemainingSettle(i) ==
  /\ pc = "getRemainingSchedule"
  /\ i \in DOMAIN futureSlots
  /\ futureSlots[i].kind = "pending"
  /\ \E o \in Outcomes(strength, RemainingWeek(currentWeek, i)) :
       futureSlots' = [futureSlots EXCEPT ![i] = o]
  /\ settled' = Append(settled, i)
  /\ UNCHANGED <<pc, callVars, histSlots, allMatchups, futureMatchups,
                 records, path, called, simResult, result, error, recVars,
                 heurVars, rankVars, simVars>>

\* Lines 23-24 and 363-366: Promise.all resolves, getSeasonMatchups returns
\* the weeks and calculateRecords aggregates them.
PastCollect ==
  /\ pc = "getSeasonMatchups"
  /\ AllSettled(histSlots)
  /\ allMatchups' = PromiseAll(histSlots).values
  /\ records' = CalculateRecords(Teams, PromiseAll(histSlots).values)
  /\ pc' = "collected"
  /\ UNCHANGED <<callVars, histSlots, futureSlots, settled, futureMatchups,
                 path, called, simResult, result, error, recVars, heurVars,
                 rankVars, simVars>>

\* Lines 115-116: Promise.all resolves, getRemainingSchedule returns the
\* weeks.
RemainingCollect ==
  /\ pc = "getRemainingSchedule"
  /\ AllSettled(futureSlots)
  /\ futureMatchups' = PromiseAll(futureSlots).values
  /\ pc' = "collected"
  /\ UNCHANGED <<callVars, histSlots, futureSlots, settled, allMatchups,
                 records, path, called, simResult, result, error, recVars,
                 heurVars, rankVars, simVars>>

FetchNext ==
  \/ \E w \in 1..MaxWeek : PastSettle(w)
  \/ \E i \in 1..MaxWeek : RemainingSettle(i)
  \/ PastCollect
  \/ RemainingCollect

FetchSpec == FetchInit /\ [][FetchNext]_vars

\* ----------------------------------------------------------- (SeasonSpec)
\* A call of analyzeStandings, or the call of simulateRemainingSeason it
\* makes at lines 294-301 taken trial by trial.
SeasonInit == Init \/ SimInit

SeasonNext == Next \/ SimNext

SeasonSpec == SeasonInit /\ [][SeasonNext]_vars

\* =================================================== properties, HeurSpec
\* C6: on the heuristic path the returned probability is never below 1 and
\* never above 99, whatever the rank, slot count, weeks remaining, record
\* and league average.
C6_HeuristicClamped ==
  heurOut # <<>> =>
    /\ heurOut[1].probability >= 1
    /\ heurOut[1].probability <= 99

C6_Witness ==
  /\ heurOut # <<>>
  /\ RLess(RInt(99), HeurRawValue)
  /\ heurOut[1].probability = 99

\* The scenario of C19: tenth place, six slots, win share at most 0.3.
FarOutside ==
  /\ heurOut # <<>>
  /\ heurIn.currentRank = 10
  /\ heurIn.playoffTeams = 6
  /\ RLeq(WinPct(heurIn.record), <<3, 10>>)
\* The team's points per game less the league's average.
StrengthDiff ==
  RSub(CalculateAdjustedPPG(heurIn.record), LeagueAvgPPG(HeurAllRecords))

\* C19 as stated: in the scenario the probability is below 45 and at least
\* 1 for every points per game, league average and number of weeks left.
C19_FarOutsideBelow45 ==
  FarOutside =>
    /\ heurOut[1].probability < 45
    /\ heurOut[1].probability >= 1

\* C19, amended: in the scenario the probability is at least 1, and it is
\* below 45 whenever the team's points per game exceed the league average
\* by less than 20.75.
C19_FarOutsideBelow45UnlessStrong ==
  FarOutside =>
    /\ heurOut[1].probability >= 1
    /\ RLess(StrengthDiff, <<83, 4>>) => heurOut[1].probability < 45

C19_Witness ==
  /\ FarOutside
  /\ heurIn.weeksRemaining = 8
  /\ REq(StrengthDiff, RInt(15))
  /\ heurOut[1].probability = 33

\* ==================================================== properties, RecSpec
\* The week folded in last, and its groups as the list itself shows them.
LastList ==
  IF weekIdx = 0 \/ allMatchups[weekIdx].isNull THEN <<>>
  ELSE allMatchups[weekIdx].list
GroupSize(list, i) ==
  Cardinality({j \in DOMAIN list : list[j].matchup_id = list[i].matchup_id})
\* The index pairs (i, j), i before j, that form a two-entry group.
PairsOf(list) ==
  {p \in (DOMAIN list) \X (DOMAIN list) :
     /\ p[1] < p[2]
     /\ list[p[1]].matchup_id = list[p[2]].matchup_id
     /\ GroupSize(list, p[1]) = 2}
InPair(list, t) ==
  \E i \in DOMAIN list : list[i].roster_id = t /\ GroupSize(list, i) = 2
Score(e) == IF e.points = <<>> THEN 0 ELSE e.points[1]
Gain(t, field) ==
  CASE field = "wins" -> records[t].wins - prevRecords[t].wins
    [] field = "losses" -> records[t].losses - prevRecords[t].losses
    [] field = "ties" -> records[t].ties - prevRecords[t].ties
    [] field = "pointsFor" -> records[t].pointsFor - prevRecords[t].pointsFor
    [] OTHER -> records[t].pointsAgainst - prevRecords[t].pointsAgainst
RECURSIVE Total(_, _)
Total(field, teams) ==
  IF teams = {} THEN 0
  ELSE LET t == CHOOSE x \in teams : TRUE
       IN (IF field = "pointsFor" THEN records[t].pointsFor
           ELSE records[t].pointsAgainst) + Total(field, teams \ {t})

\* C8: a matchup_id group changes records only if it has exactly two
\* entries: every team whose entry lies in a group of size 1 or of size 3
\* or more (or that has no entry) keeps every field of its record.
C8_OnlyPairsCount ==
  \A t \in Teams : ~InPair(LastList, t) => records[t] = prevRecords[t]

C8_Witness ==
  /\ weekIdx = 2
  /\ Len(LastList) = 3
  /\ GroupSize(LastList, 1) = 3
  /\ Score(LastList[1]) > Score(LastList[2])
  /\ records = prevRecords
  /\ records[1].wins = 1

\* C9: for every two-entry group (A, B): more points for A give A one win
\* and B one loss and change no ties; more for B the mirror image; equal
\* points (both 0 or both missing included) give both one tie and neither
\* a win nor a loss.
C9_PairOutcome ==
  \A p \in PairsOf(LastList) :
    LET a == LastList[p[1]].roster_id
        b == LastList[p[2]].roster_id
        pa == Score(LastList[p[1]])
        pb == Score(LastList[p[2]])
    IN /\ pa > pb =>
            /\ Gain(a, "wins") = 1 /\ Gain(b, "losses") = 1
            /\ Gain(a, "losses") = 0 /\ Gain(b, "wins") = 0
            /\ Gain(a, "ties") = 0 /\ Gain(b, "ties") = 0
       /\ pb > pa =>
            /\ Gain(b, "wins") = 1 /\ Gain(a, "losses") = 1
            /\ Gain(b, "losses") = 0 /\ Gain(a, "wins") = 0
            /\ Gain(a, "ties") = 0 /\ Gain(b, "ties") = 0
       /\ pa = pb =>
            /\ Gain(a, "ties") = 1 /\ Gain(b, "ties") = 1
            /\ Gain(a, "wins") = 0 /\ Gain(b, "wins") = 0
            /\ Gain(a, "losses") = 0 /\ Gain(b, "losses") = 0

C9_Witness ==
  /\ weekIdx = 3
  /\ \E p \in PairsOf(LastList) :
       /\ LastList[p[1]].points = <<>>
       /\ LastList[p[2]].points = <<>>
       /\ Gain(LastList[p[1]].roster_id, "ties") = 1
       /\ Gain(LastList[p[2]].roster_id, "ties") = 1
       /\ prevRecords[LastList[p[1]].roster_id].wins = 1

\* C10: for every processed pair the pointsFor added to A is the
\* pointsAgainst added to B and vice versa, so over the league the sum of
\* pointsFor equals the sum of pointsAgainst.
C10_PointsConserved ==
  /\ Total("pointsFor", Teams) = Total("pointsAgainst", Teams)
  /\ \A p \in PairsOf(LastList) :
       LET a == LastList[p[1]].roster_id
           b == LastList[p[2]].roster_id
       IN /\ Gain(a, "pointsFor") = Score(LastList[p[1]])
          /\ Gain(b, "pointsAgainst") = Gain(a, "pointsFor")
          /\ Gain(b, "pointsFor") = Score(LastList[p[2]])
          /\ Gain(a, "pointsAgainst") = Gain(b, "pointsFor")

C10_Witness ==
  /\ pc = "returned"
  /\ weekIdx = 3
  /\ \E p \in PairsOf(LastList) :
       /\ Score(LastList[p[1]]) = 1
       /\ Score(LastList[p[2]]) = 0
       /\ Gain(LastList[p[2]].roster_id, "pointsAgainst") = 1
  /\ Total("pointsFor", Teams) = Total("pointsAgainst", Teams)
  /\ Total("pointsFor", Teams) >= 3

\* The weeks folded in so far in which team t is in a two-entry group.
PairWeeks(t) ==
  {w \in 1..weekIdx :
     ~allMatchups[w].isNull /\ InPair(allMatchups[w].list, t)}
FieldOf(r, field) ==
  CASE field = "wins" -> r.wins
    [] field = "losses" -> r.losses
    [] field = "ties" -> r.ties
    [] field = "pointsFor" -> r.pointsFor
    [] OTHER -> r.pointsAgainst
RECURSIVE SumOver(_, _)
SumOver(field, teams) ==
  IF teams = {} THEN 0
  ELSE LET t == CHOOSE x \in teams : TRUE
       IN FieldOf(records[t], field) + SumOver(field, teams \ {t})

\* C11: every team's wins + losses + ties is the number of two-entry
\* groups it has appeared in over the weeks processed so far; over the
\* league the wins equal the losses and the ties add up to an even number.
C11_GamesAccounted ==
  /\ \A t \in Teams :
       records[t].wins + records[t].losses + records[t].ties
         = Cardinality(PairWeeks(t))
  /\ SumOver("wins", Teams) = SumOver("losses", Teams)
  /\ SumOver("ties", Teams) % 2 = 0

C11_Witness ==
  /\ pc = "returned"
  /\ weekIdx = 3
  /\ SumOver("ties", Teams) = 2
  /\ SumOver("wins", Teams) = 2
  /\ \E t \in Teams :
       /\ Cardinality(PairWeeks(t)) = 3
       /\ records[t].wins = 1 /\ records[t].losses = 1 /\ records[t].ties = 1

\* The field-by-field sum of two results of calculateRecords.
AddRecords(a, b) ==
  [t \in DOMAIN a |->
     [rosterId |-> a[t].rosterId,
      wins |-> a[t].wins + b[t].wins,
      losses |-> a[t].losses + b[t].losses,
      ties |-> a[t].ties + b[t].ties,
      pointsFor |-> a[t].pointsFor + b[t].pointsFor,
      pointsAgainst |-> a[t].pointsAgainst + b[t].pointsAgainst]]
WeeksFromTo(a, b) == SubSeq(allMatchups, a, b)

\* C12: the result for weeks 1..n is, for every split point k, the
\* field-by-field sum of the result for weeks 1..k and the result for
\* weeks k+1..n.
C12_AdditiveOverSplits ==
  pc = "returned" =>
    \A k \in 0..Len(allMatchups) :
      records = AddRecords(
                  CalculateRecords(Teams, WeeksFromTo(1, k)),
                  CalculateRecords(Teams, WeeksFromTo(k + 1, Len(allMatchups))))

C12_Witness ==
  /\ pc = "returned"
  /\ Len(allMatchups) = 3
  /\ \E t \in Teams :
       /\ records[t].wins = 2
       /\ CalculateRecords(Teams, WeeksFromTo(1, 1))[t].wins = 1
       /\ CalculateRecords(Teams, WeeksFromTo(2, 3))[t].wins = 1

\* C13: calculateRecords raises no error for any input: a null or empty
\* week, a group of any size and a two-entry group naming a roster id that
\* is not among the rosters all leave the records alone.
C13_NeverThrows == pc # "threw" /\ error = "none"

\* C14: the result holds exactly one record per supplied roster id, and a
\* team that is in no two-entry group of any week has 0 in all five fields.
C14_OneRecordPerRoster ==
  pc = "returned" =>
    /\ DOMAIN records = Teams
    /\ \A t \in Teams :
         /\ records[t].rosterId = t
         /\ PairWeeks(t) = {} =>
              \A field \in {"wins", "losses", "ties", "pointsFor",
                             "pointsAgainst"} :
                FieldOf(records[t], field) = 0

C14_Witness ==
  /\ pc = "returned"
  /\ weekIdx = 2
  /\ \E t \in Teams :
       /\ PairWeeks(t) = {}
       /\ \E i \in DOMAIN LastList :
            LastList[i].roster_id = t /\ Score(LastList[i]) = 1
       /\ records[t] = InitRecords(Teams)[t]
  /\ SumOver("pointsFor", Teams) > 0

\* =================================================== properties, RankSpec
\* Sequence out holds every element of sequence in exactly once.
IsPermutation(out, in) ==
  /\ Len(out) = Len(in)
  /\ \A i \in DOMAIN in :
       Cardinality({j \in DOMAIN out : out[j] = in[i]}) = 1
\* x may stand directly before y in the standings.
StandsBefore(x, y) ==
  \/ x.wins > y.wins
  \/ x.wins = y.wins /\ x.ties > y.ties
  \/ x.wins = y.wins /\ x.ties = y.ties /\ x.pointsFor >= y.pointsFor
WithoutPowerRank(r) == [f \in DOMAIN r \ {"powerRank"} |-> r[f]]

C16_PowerRankings ==
  rankOut # <<>> =>
    LET p == rankOut[1].powerRankings
    IN /\ IsPermutation([i \in DOMAIN p |-> WithoutPowerRank(p[i])],
                        rankOut[1].given)
       /\ \A i \in DOMAIN p : p[i].powerRank = i
       /\ {p[i].powerRank : i \in DOMAIN p} = 1..Len(rankOut[1].given)
       /\ \A i \in 1..(Len(p) - 1) : p[i].pointsFor >= p[i + 1].pointsFor
       /\ \A i \in DOMAIN p : p[1].pointsFor >= p[i].pointsFor
       /\ rankIn = rankOut[1].given

C16_Witness ==
  /\ rankOut # <<>>
  /\ LET p == rankOut[1].powerRankings
     IN /\ p[1].rosterId = 3 /\ p[1].powerRank = 1 /\ p[1].pointsFor = 2
        /\ p[2].rosterId = 1 /\ p[2].powerRank = 2 /\ p[2].pointsFor = 1
        /\ p[3].rosterId = 2 /\ p[3].powerRank = 3 /\ p[3].pointsFor = 0
        /\ p[3].wins > p[1].wins
  /\ rankIn[1].rosterId = 1

\* ==================================================== properties, SimSpec
InRange(v) ==
  /\ ~v.nan
  /\ RLeq(RInt(0), v.value)
  /\ RLeq(v.value, RInt(100))

\* C17 as stated: for any records, any future schedule and any iteration
\* count, simulateRemainingSeason returns a value in [0, 100].
C17_AlwaysInRange == simValue # <<>> => InRange(simValue[1])

\* C17, amended: for any records, any future schedule and any iteration
\* count of at least 1, the returned value is in [0, 100].
C17_InRangeWithIterations ==
  (simValue # <<>> /\ simArgs.iterations >= 1) => InRange(simValue[1])

C17_Witness ==
  /\ simValue # <<>>
  /\ simArgs.iterations = 2
  /\ simRun.playoffAppearances = 1
  /\ simValue[1] = Number(<<100, 2>>)
  /\ Len(simArgs.futureMatchups) = 2
  /\ simRun.trial[1].userFinalRank = SimPlayoffSlots + 1

\* C18: two runs of the simulator with the same records, schedule,
\* iteration count and supplied random draws return identical results; the
\* caller can supply the random source.
C18_SameArgumentsSameValue ==
  (simFirst # <<>> /\ simValue # <<>>) => simValue = simFirst

\* C20: a trial counts as qualifying exactly when the target's final
\* 1-based position is at most the league's playoff slot count, for every
\* slot count a league can have.
C20_QualifiesBySlotCount ==
  simRun.trial # <<>> =>
    \A slots \in 0..MaxPlayoffTeams :
      LET playoffTeams ==
            PlayoffTeams([playoff_teams |-> slots, playoff_week_start |-> 0],
                         Len(simArgs.allRecords))
      IN simRun.trial[1].qualified
           <=> simRun.trial[1].userFinalRank <= playoffTeams

\* x may stand directly before y under the standings rule of lines 379-383,
\* on the records of a trial (pointsFor a quotient).
TrialStandsBefore(x, y) ==
  \/ x.wins > y.wins
  \/ x.wins = y.wins /\ x.ties > y.ties
  \/ x.wins = y.wins /\ x.ties = y.ties /\ RLeq(y.pointsFor, x.pointsFor)

\* C21: at the end of each trial the records are ordered by the rule of the
\* standings, descending wins, then ties, then pointsFor: of two teams with
\* equal wins the one with more ties is ahead, whatever their pointsFor.
C21_TrialOrderedAsStandings ==
  simRun.trial # <<>> =>
    LET s == simRun.trial[1].finalStandings
    IN \A i \in 1..(Len(s) - 1) : TrialStandsBefore(s[i], s[i + 1])

\* ============================================ properties, Spec (ranking)
\* The call returned a result; the roster of the requested user.
Returned == pc = "done" /\ result # <<>>
UserRosterId == FindUserRoster(userId)[1]

\* C22: the currentRank of playoffProb is the user's 1-based position in
\* the standings analyzeStandings returns (wins, then ties, then
\* pointsFor), so currentRank and userRecord.standing agree.
C22_CurrentRankIsStanding ==
  Returned => result[1].currentRank = UserStanding(UserRosterId, AllRecords)

\* ============================================ properties, SimSpec (trials)
\* The record of roster id among the trial's final records.
FinalRecord(id) ==
  LET s == simRun.trial[1].finalStandings IN s[RankOf(s, id)]

\* C23: simulateRemainingSeason never changes the records it is given:
\* after every trial allRecords holds the wins, losses, ties, pointsFor and
\* pointsAgainst the trial started from, and so every trial starts from
\* the canonical values, whatever earlier trials did to their copies.
C23_CanonicalUntouched ==
  simRun.trial # <<>> =>
    LET start == simRun.trial[1].start
    IN /\ Len(start) = Len(simArgs.allRecords)
       /\ \A i \in DOMAIN start :
            /\ start[i].rosterId = simArgs.allRecords[i].rosterId
            /\ start[i].wins = simArgs.allRecords[i].wins
            /\ start[i].losses = simArgs.allRecords[i].losses
            /\ start[i].ties = simArgs.allRecords[i].ties
            /\ start[i].pointsFor = RInt(simArgs.allRecords[i].pointsFor)
            /\ start[i].pointsAgainst = simArgs.allRecords[i].pointsAgainst

C23_Witness ==
  /\ simRun.sim = 2
  /\ simRun.trial # <<>>
  /\ \E i \in DOMAIN simArgs.allRecords :
       LET r == simArgs.allRecords[i]
       IN /\ FinalRecord(r.rosterId).wins = r.wins + 2
          /\ RLess(RInt(r.pointsFor), FinalRecord(r.rosterId).pointsFor)
          /\ simRun.trial[1].start[i].wins = r.wins

\* =================================================== properties, FetchSpec
\* What the caught request of a slot resolves to (lines 19 and 111).
Collected(slot) == IF slot.kind = "rejected" THEN Arr(<<>>) ELSE slot.value

\* C24: whatever the order in which the requests settle, entry i of the
\* collected past weeks is what the request for week i gave, entry i of the
\* collected remaining weeks is what the request for week
\* currentWeek + i - 1 gave, and the records are those of the past weeks
\* taken by week.
C24_CollectedByWeek ==
  pc = "collected" =>
    /\ Len(allMatchups) = Len(histSlots)
    /\ \A w \in DOMAIN allMatchups :
         /\ allMatchups[w] = Collected(histSlots[w])
         /\ histSlots[w] \in Outcomes(strength, w)
    /\ records = CalculateRecords(Teams,
                   [w \in DOMAIN histSlots |-> Collected(histSlots[w])])
    /\ Len(futureMatchups) = Len(futureSlots)
    /\ \A i \in DOMAIN futureMatchups :
         /\ futureMatchups[i] = Collected(futureSlots[i])
         /\ futureSlots[i] \in Outcomes(strength, currentWeek + i - 1)

\* The later of two past weeks settled first, the weeks gave different
\* data, and the records have been computed from them.
C24_Witness ==
  /\ pc = "collected"
  /\ settled = <<2, 1>>
  /\ Len(allMatchups) = 2
  /\ allMatchups[1] # allMatchups[2]
  /\ Len(allMatchups[1].list) > 0
  /\ Len(allMatchups[2].list) > 0
  /\ \E t \in Teams : records[t].wins = 2

\* =============================================== properties, RecOrderSpec
\* The weeks of the argument in the order p.
Permuted(p) == [i \in DOMAIN allMatchups |-> allMatchups[p[i]]]

\* C25: for every permutation of the weekly lists the call returns the
\* same record for every team as for the lists in the order given.
C25_SameForEveryOrder ==
  pc = "returned" =>
    \A p \in Permutations(DOMAIN allMatchups) :
      /\ ~CallThrows(Teams, Permuted(p))
      /\ CalculateRecords(Teams, Permuted(p)) = records

\* Three weeks with three different lists, a team that won in one of them
\* and not in another.
C25_Witness ==
  /\ pc = "returned"
  /\ Len(allMatchups) = 3
  /\ allMatchups[1] # allMatchups[2]
  /\ allMatchups[2] # allMatchups[3]
  /\ allMatchups[1] # allMatchups[3]
  /\ \E t \in Teams :
       /\ records[t].wins >= 1
       /\ CalculateRecords(Teams, SubSeq(allMatchups, 1, 1))[t].wins
            # CalculateRecords(Teams, SubSeq(allMatchups, 3, 3))[t].wins

\* =================================================== properties, HeurSpec
\* The parts of the heuristic value as C26 states them, from the inputs.
StatedBase ==
  LET rank == heurIn.currentRank
      slots == heurIn.playoffTeams
  IN IF rank <= slots
       THEN 70 + (IF (slots - rank) * 5 <= 20 THEN (slots - rank) * 5 ELSE 20)
       ELSE (IF 45 - (rank - slots) * 8 >= 5 THEN 45 - (rank - slots) * 8
             ELSE 5)
StatedGames(r) == r.wins + r.losses + r.ties
StatedPPG(r) ==
  IF StatedGames(r) = 0 THEN RInt(0) ELSE <<r.pointsFor, StatedGames(r)>>
StatedStrength ==
  RScale(2, RSub(StatedPPG(heurIn.record),
                 RDivInt(RAdd(StatedPPG(heurIn.record),
                              StatedPPG(heurIn.rival)), 2)))
StatedTime ==
  IF heurIn.weeksRemaining >= 8 THEN 10
  ELSE IF heurIn.weeksRemaining <= 3 THEN 0 - 15
  ELSE 0
\* Win percentage (2 * wins + ties) / (2 * games), 0 with no game played,
\* against 0.6 and 0.3.
StatedTrend ==
  LET r == heurIn.record
      g == StatedGames(r)
  IN IF g > 0 /\ 10 * (2 * r.wins + r.ties) >= 12 * g THEN 15
     ELSE IF g = 0 \/ 10 * (2 * r.wins + r.ties) <= 6 * g THEN 0 - 20
     ELSE 0
StatedValue ==
  RAdd(RInt(StatedBase + StatedTime + StatedTrend), StatedStrength)
StatedClamped ==
  IF RLess(StatedValue, RInt(1)) THEN RInt(1)
  ELSE IF RLess(RInt(99), StatedValue) THEN RInt(99)
  ELSE StatedValue

\* C26: the heuristic value before clamping is the stated base plus twice
\* the points-per-game difference plus the time and trend adjustments, and
\* the returned probability is that value clamped to [1, 99] and rounded to
\* the nearest integer.
C26_HeuristicAsStated ==
  heurOut # <<>> =>
    /\ REq(HeurRawValue, StatedValue)
    /\ RLeq(<<2 * heurOut[1].probability - 1, 2>>, StatedClamped)
    /\ RLess(StatedClamped, <<2 * heurOut[1].probability + 1, 2>>)

\* A team outside the slots with three weeks left, a winning record and
\* more points per game than the league: every part contributes, nothing
\* is clamped and the value is rounded.
C26_Witness ==
  /\ heurOut # <<>>
  /\ heurIn.currentRank > heurIn.playoffTeams
  /\ heurIn.weeksRemaining = 3
  /\ StatedTrend = 15
  /\ RLess(RInt(0), StatedStrength)
  /\ RLess(RInt(1), StatedValue)
  /\ RLess(StatedValue, RInt(99))
  /\ ~REq(StatedValue, RInt(heurOut[1].probability))

\* ==================================================== properties, SimSpec
\* The records the simulator was given that project 0 points per game: no
\* game played, or no point scored.
HasRecord(id) == \E i \in DOMAIN simArgs.allRecords :
                   simArgs.allRecords[i].rosterId = id
GivenRecord(id) ==
  simArgs.allRecords[CHOOSE i \in DOMAIN simArgs.allRecords :
                       simArgs.allRecords[i].rosterId = id]
ProjectsZero(id) ==
  \/ GivenRecord(id).wins + GivenRecord(id).losses + GivenRecord(id).ties = 0
  \/ GivenRecord(id).pointsFor = 0
\* The remaining weeks in which rosters t and u, both with a record, are
\* the two entries of a group.
WeeksPaired(t, u) ==
  {w \in DOMAIN simArgs.futureMatchups :
     /\ ~simArgs.futureMatchups[w].isNull
     /\ \E p \in PairsOf(simArgs.futureMatchups[w].list) :
          {simArgs.futureMatchups[w].list[p[1]].roster_id,
           simArgs.futureMatchups[w].list[p[2]].roster_id} = {t, u}}
RECURSIVE GamesAgainst(_, _)
GamesAgainst(t, opponents) ==
  IF opponents = {} THEN 0
  ELSE LET u == CHOOSE x \in opponents : TRUE
       IN Cardinality(WeeksPaired(t, u)) + GamesAgainst(t, opponents \ {u})
Opponents(t) ==
  {simArgs.allRecords[i].rosterId : i \in DOMAIN simArgs.allRecords} \ {t}

\* C27: in every trial a team that projects 0 points per game scores 0 in
\* each of its simulated matchups and wins none: it ties every matchup
\* with another team projecting 0 and loses every other one, whatever the
\* draws.
C27_ZeroProjectionNeverWins ==
  simRun.trial # <<>> =>
    \A i \in DOMAIN simArgs.allRecords :
      LET t == simArgs.allRecords[i].rosterId
          given == simArgs.allRecords[i]
          final == FinalRecord(t)
      IN ProjectsZero(t) =>
           /\ final.wins = given.wins
           /\ REq(final.pointsFor, RInt(given.pointsFor))
           /\ final.ties - given.ties =
                GamesAgainst(t, {u \in Opponents(t) : ProjectsZero(u)})
           /\ final.losses - given.losses =
                GamesAgainst(t, {u \in Opponents(t) : ~ProjectsZero(u)})

\* Two teams without a game met in a remaining week and each has a tie
\* for every week they met.
C27_Witness ==
  /\ simRun.trial # <<>>
  /\ \E t \in Teams, u \in Teams :
       /\ t # u
       /\ GivenRecord(t).wins + GivenRecord(t).losses + GivenRecord(t).ties = 0
       /\ GivenRecord(u).wins + GivenRecord(u).losses + GivenRecord(u).ties = 0
       /\ Cardinality(WeeksPaired(t, u)) >= 1
       /\ FinalRecord(t).ties = Cardinality(WeeksPaired(t, u))
       /\ FinalRecord(u).ties = Cardinality(WeeksPaired(t, u))

\* ======================================================= properties, Spec
\* C28: on the zero-weeks, the simulation and the heuristic path alike the
\* returned status is IN exactly when the returned currentRank is at most
\* the returned playoffTeams, whatever the probability.
C28_StatusFromRankOnly ==
  Returned =>
    /\ path \in {"zeroWeeks", "simulation", "heuristic"}
    /\ result[1].status \in {"IN", "OUT"}
    /\ result[1].status = "IN" <=> result[1].currentRank <= result[1].playoffTeams

\* The simulation gave 100 to a team whose rank is outside the slots.
C28_Witness ==
  /\ Returned
  /\ path = "simulation"
  /\ result[1].probability = 100
  /\ result[1].currentRank > result[1].playoffTeams
  /\ result[1].status = "OUT"

\* A request that has settled with the entries of its week.
WithEntries(slot) ==
  /\ slot.kind = "resolved"
  /\ ~slot.value.isNull
  /\ Len(slot.value.list) > 0

C30_RanksWithinLeague ==
  /\ Returned =>
       /\ UserStanding(UserRosterId, AllRecords) \in 1..TotalTeams
       /\ UserPowerRank(UserRosterId, AllRecords) \in 1..TotalTeams
       /\ result[1].currentRank \in 1..TotalTeams
  /\ simRun.trial # <<>> =>
       simRun.trial[1].userFinalRank \in 1..Len(simArgs.allRecords)

\* The user's team is last in the standings and by current rank.
C30_Witness ==
  /\ Returned
  /\ UserStanding(UserRosterId, AllRecords) = TotalTeams
  /\ result[1].currentRank = TotalTeams
  /\ UserPowerRank(UserRosterId, AllRecords) > 1

====
